---- MODULE Spec2Model ----
(***************************************************************************)
(* Model of the audio core of rsaber:                                      *)
(*   - lib/src/circbuf.rs      bounded single-producer/single-consumer      *)
(*                             ring buffer (one mutex, one condvar)         *)
(*   - lib/src/audio/file.rs   file-backed source, its handle and its       *)
(*                             decode thread                                *)
(*   - lib/src/audio/engine.rs mixer callback, worker thread, start/pause   *)
(*                                                                         *)
(* A critical section (lock .. unlock) is one step; a thread that finds     *)
(* the wait_while predicate true parks on the condition variable and is    *)
(* made runnable again by notify_all (or by a spurious wakeup).            *)
(***************************************************************************)
EXTENDS Integers, Sequences, FiniteSets, TLC

\* ---------------------------------------------------------------- bounds
\* channel harness: capacities 1..MaxCap, requests of 0..MaxReq elements,
\* streams of at most MaxSent elements
MaxCap == 3
MaxReq == 4
MaxSent == 5
\* engine: sources 1..NSrc, callbacks of 1..MaxFrames frames, the sample
\* counter stops at MaxCount
NSrc == 3
MaxFrames == 1
MaxCount == 1
\* file source: a channel of FileCap samples, packets of 1..MaxPkt samples
FileCap == 2
MaxPkt == 2
\* the hardware stream time, in frames: 0..MaxTs
MaxTs == 2
\* add calls after the one for the file source
MaxLate == 1
\* start and pause calls in the harness of the two
MaxCalls == 6
\* resampling: input blocks of 1..MaxBlock frames, streams of 0..MaxStream
\* frames
MaxBlock == 3
MaxStream == 6

\* engine.rs
CHANNELS == 2
\* engine.rs: INACTIVE = u64::MAX, a value the sample counter never takes
INACTIVE == -1

VARIABLES
    \* circbuf.rs: Inner
    cap, buf, send_i, recv_i, filled, send_alive, recv_alive,
    \* the producer thread's position in Sender::send / Drop
    spc, sdata, si, sret,
    \* the consumer thread's position in Receiver::recv / wait_full / Drop
    rpc, rop, rlen, rout, rret,
    \* history: elements passed to send, written to the ring, returned by recv,
    \* and the fill level at the moment the Sender was dropped
    sent, enq, rcvd, kdrop,
    \* engine.rs: AudioEngine.playing, the hardware stream, the worker's
    \* message queue, the source the worker is building (0: none), the number
    \* of add() calls, Inner.source_infos, the start_pos cells, sample_count
    playing, stream, worker_q, wsrc, nadd, source_infos, start_pos, sample_count,
    \* engine.rs: who holds the mutex of Inner ("free", "mixer", "worker"), and
    \* which thread has panicked ("none", "worker", then "caller")
    lock, crash,
    \* history: the last operation start/pause performed on the hardware
    \* stream ("none", "play", "pause") and the parity of their number
    sop, spar,
    \* engine.rs: the mixer callback: position, i, buf.len(), buf, the divisor
    \* applied to buf, and what get_samples returned in this callback
    mpc, mi, mlen, out, odiv, tick,
    \* history: source_infos as the callback found it
    mstart,
    \* the sources: state (file.rs: AtomicState)
    state,
    \* file.rs: the handle, the thread calling play(), the decode thread
    handle, apc, dpc,
    \* the handle's get_timestamp call: its position, the stream time it read,
    \* its result; history: play() has returned, and the last two results of
    \* the file source's get_samples
    tpc, tstream, tret, played, glast,
    \* file.rs: the decode thread's resampling loop: its position, the
    \* resampler's input block size, in_buf, in_i, decoded_buf_opt (frames and
    \* i; no frames: None), end; the stream: its length in frames and the
    \* frames decoded so far; history: the frames handed to the resampler and
    \* the number of frames pushed into the channel
    qpc, blk, in_buf, in_i, dbuf, dbi, end, flen, nfr, rin, nout,
    \* history kept by the application threads of the harnesses: the start
    \* and pause calls made so far; the last position get_timestamp returned,
    \* the stream time it was computed from, and whether it was the first
    calls, tlast

chanVars == <<cap, buf, send_i, recv_i, filled, send_alive, recv_alive>>
sendVars == <<spc, sdata, si, sret>>
recvVars == <<rpc, rop, rlen, rout, rret>>
histVars == <<sent, enq, rcvd, kdrop>>
engVars == <<playing, stream, worker_q, wsrc, nadd, source_infos, start_pos, sample_count,
             lock, crash, sop, spar>>
mixVars == <<mpc, mi, mlen, out, odiv, tick, mstart>>
srcVars == <<state>>
fileVars == <<handle, apc, dpc>>
tsVars == <<tpc, tstream, tret, played, glast>>
audioVars == <<engVars, mixVars, srcVars, fileVars, tsVars>>
chanAll == <<chanVars, sendVars, recvVars, histVars>>
resVars == <<qpc, blk, in_buf, in_i, dbuf, dbi, end, flen, nfr, rin, nout>>
logVars == <<calls, tlast>>
vars == <<chanVars, sendVars, recvVars, histVars, audioVars, resVars, logVars>>

Srcs == 1..NSrc

\* the sample value of constant source id: no two sets of sources have the
\* same sum
ConstVal(id) == 2 ^ (id - 1)

Min(a, b) == IF a < b THEN a ELSE b

IsPrefix(s, t) == Len(s) <= Len(t) /\ SubSeq(t, 1, Len(s)) = s

\* the last n elements of s (all of s when it is shorter)
LastN(s, n) == LET m == Min(n, Len(s)) IN [j \in 1..m |-> s[Len(s) - m + j]]

\* ------------------------------------------------------------ circbuf.rs

\* circbuf(len): all cells T::default(), both cursors 0, both ends alive
InnerInit(len) ==
    /\ cap = len
    /\ buf = [k \in 0..(len - 1) |-> 0]
    /\ send_i = 0
    /\ recv_i = 0
    /\ filled = 0
    /\ send_alive = TRUE
    /\ recv_alive = TRUE

\* Condvar::notify_all: every parked thread becomes runnable and will
\* re-evaluate its wait_while predicate under the lock.
WakePc(pc) ==
    CASE pc = "wait" -> "run"
      [] pc = "recvwait" -> "recv"
      [] pc = "wfwait" -> "wf"
      [] OTHER -> pc

NotifyLost(pc) == pc

\* Sender::notify
SenderNotify(pc) == WakePc(pc)

ReceiverNotifyLost(pc) == pc

\* Receiver::notify
ReceiverNotify(pc) == WakePc(pc)

SendDoneFirstChunk(i, n) == i = n \/ i > 0

\* send: loop top, todo == 0: nothing left of the slice
SendDone(i, n) == i = n

SendWaitCondNoAlive == filled = cap

\* wait_while predicate of send: full, and somebody may still drain it
SendWaitCond == recv_alive /\ filled = cap

\* send: chunk size of this iteration
SendTodo == Min(cap - filled, Len(sdata) - si)

SendAdvanceEarly(c, n) == IF c + n >= cap - 1 THEN 0 ELSE c + n

\* send: cursor after copying n cells from cursor c (n <= cap - c)
SendAdvance(c, n) == IF c + n = cap THEN 0 ELSE c + n

\* send: the inner while loop; copies todo elements of data, from index i
\* (0-based), into the ring b starting at cursor c, one contiguous run at a time
RECURSIVE SendCopy(_, _, _, _, _)
SendCopy(b, c, data, i, todo) ==
    IF todo = 0 THEN [buf |-> b, send_i |-> c, i |-> i]
    ELSE LET copy == Min(cap - c, todo)
             nb == [k \in DOMAIN b |->
                        IF k >= c /\ k < c + copy THEN data[i + (k - c) + 1] ELSE b[k]]
         IN SendCopy(nb, SendAdvance(c, copy), data, i + copy, todo - copy)

RecvWaitCondNever == FALSE

RecvWaitCondNoAlive == filled = 0

\* wait_while predicate of recv: empty, and somebody may still fill it
RecvWaitCond == send_alive /\ filled = 0

\* recv: chunk size of this iteration
RecvTodo == Min(filled, rlen - Len(rout))

RecvAdvanceEarly(c, n) == IF c + n >= cap - 1 THEN 0 ELSE c + n

\* recv: cursor after copying n cells from cursor c
RecvAdvance(c, n) == IF c + n = cap THEN 0 ELSE c + n

\* recv: the inner while loop; appends todo elements of the ring, from
\* cursor c, to dst
RECURSIVE RecvCopy(_, _, _, _)
RecvCopy(b, c, dst, todo) ==
    IF todo = 0 THEN [recv_i |-> c, out |-> dst]
    ELSE LET copy == Min(cap - c, todo)
             chunk == [j \in 1..copy |-> b[c + j - 1]]
         IN RecvCopy(b, RecvAdvance(c, copy), dst \o chunk, todo - copy)

WaitFullCondNever == FALSE

\* wait_while predicate of wait_full
WaitFullCond == send_alive /\ filled < cap

\* --- Sender::send

\* loop top with todo == 0: break, return true
SendReturnTrue ==
    /\ spc = "run"
    /\ SendDone(si, Len(sdata))
    /\ spc' = "idle"
    /\ sret' = "true"
    /\ UNCHANGED <<chanVars, sdata, si, recvVars, histVars>>

\* lock; the buffer is full and the receiver alive: park on the condvar
SendBlock ==
    /\ spc = "run"
    /\ ~SendDone(si, Len(sdata))
    /\ SendWaitCond
    /\ spc' = "wait"
    /\ UNCHANGED <<chanVars, sdata, si, sret, recvVars, histVars>>

\* lock; receiver dropped: return false
SendFail ==
    /\ spc = "run"
    /\ ~SendDone(si, Len(sdata))
    /\ ~SendWaitCond
    /\ ~recv_alive
    /\ spc' = "idle"
    /\ sret' = "false"
    /\ UNCHANGED <<chanVars, sdata, si, recvVars, histVars>>

\* lock; copy one chunk; notify; unlock; next iteration
SendChunk ==
    /\ spc = "run"
    /\ ~SendDone(si, Len(sdata))
    /\ ~SendWaitCond
    /\ recv_alive
    /\ LET todo == SendTodo
           r == SendCopy(buf, send_i, sdata, si, todo)
       IN /\ filled' = filled + todo
          /\ buf' = r.buf
          /\ send_i' = r.send_i
          /\ si' = r.i
          /\ enq' = enq \o SubSeq(sdata, si + 1, si + todo)
    /\ rpc' = SenderNotify(rpc)
    /\ UNCHANGED <<cap, recv_i, send_alive, recv_alive, spc, sdata, sret,
                   rop, rlen, rout, rret, sent, rcvd, kdrop>>

\* Condvar::wait may return without a notification
SendSpurious ==
    /\ spc = "wait"
    /\ spc' = "run"
    /\ UNCHANGED <<chanVars, sdata, si, sret, recvVars, histVars>>

\* Drop for Sender
DropSender ==
    /\ spc = "idle"
    /\ send_alive' = FALSE
    /\ spc' = "dead"
    /\ kdrop' = filled
    /\ rpc' = SenderNotify(rpc)
    /\ UNCHANGED <<cap, buf, send_i, recv_i, filled, recv_alive, sdata, si, sret,
                   rop, rlen, rout, rret, sent, enq, rcvd>>

\* --- Receiver::recv

\* loop top with todo == 0: break, return i
RecvReturnFull ==
    /\ rpc = "recv"
    /\ Len(rout) = rlen
    /\ rpc' = "idle"
    /\ rret' = Len(rout)
    /\ rcvd' = rcvd \o rout
    /\ UNCHANGED <<chanVars, sendVars, rop, rlen, rout, sent, enq, kdrop>>

\* lock; the buffer is empty and the sender alive: park on the condvar
RecvBlock ==
    /\ rpc = "recv"
    /\ Len(rout) < rlen
    /\ RecvWaitCond
    /\ rpc' = "recvwait"
    /\ UNCHANGED <<chanVars, sendVars, rop, rlen, rout, rret, histVars>>

\* lock; nothing buffered (the sender is dead): break, return i
RecvReturnShort ==
    /\ rpc = "recv"
    /\ Len(rout) < rlen
    /\ ~RecvWaitCond
    /\ RecvTodo = 0
    /\ rpc' = "idle"
    /\ rret' = Len(rout)
    /\ rcvd' = rcvd \o rout
    /\ UNCHANGED <<chanVars, sendVars, rop, rlen, rout, sent, enq, kdrop>>

\* lock; copy one chunk; notify; unlock; next iteration
RecvChunk ==
    /\ rpc = "recv"
    /\ Len(rout) < rlen
    /\ ~RecvWaitCond
    /\ RecvTodo > 0
    /\ LET todo == RecvTodo
           r == RecvCopy(buf, recv_i, rout, todo)
       IN /\ filled' = filled - todo
          /\ recv_i' = r.recv_i
          /\ rout' = r.out
    /\ spc' = ReceiverNotify(spc)
    /\ UNCHANGED <<cap, buf, send_i, send_alive, recv_alive, sdata, si, sret,
                   rpc, rop, rlen, rret, histVars>>

\* --- Receiver::wait_full

\* lock; not full and the sender alive: park on the condvar
WaitFullBlock ==
    /\ rpc = "wf"
    /\ WaitFullCond
    /\ rpc' = "wfwait"
    /\ UNCHANGED <<chanVars, sendVars, rop, rlen, rout, rret, histVars>>

\* lock; full, or the sender is dead: return
WaitFullReturn ==
    /\ rpc = "wf"
    /\ ~WaitFullCond
    /\ rpc' = "idle"
    /\ UNCHANGED <<chanVars, sendVars, rop, rlen, rout, rret, histVars>>

\* Condvar::wait may return without a notification
RecvSpurious ==
    /\ rpc \in {"recvwait", "wfwait"}
    /\ rpc' = WakePc(rpc)
    /\ UNCHANGED <<chanVars, sendVars, rop, rlen, rout, rret, histVars>>

\* Drop for Receiver
DropReceiver ==
    /\ rpc = "idle"
    /\ recv_alive' = FALSE
    /\ rpc' = "dead"
    /\ spc' = ReceiverNotify(spc)
    /\ UNCHANGED <<cap, buf, send_i, recv_i, filled, send_alive, sdata, si, sret,
                   rop, rlen, rout, rret, histVars>>

\* ------------------------------------------- a producer and a consumer
\* The two ends in the hands of arbitrary callers: one thread owns the
\* Sender, one owns the Receiver; each makes calls of any size, in any order.

\* the producer calls send(data), data being the next n elements of its stream
SendCall(n) ==
    /\ spc = "idle"
    /\ Len(sent) + n <= MaxSent
    /\ sdata' = [j \in 1..n |-> Len(sent) + j]
    /\ si' = 0
    /\ sret' = "none"
    /\ spc' = "run"
    /\ sent' = sent \o [j \in 1..n |-> Len(sent) + j]
    /\ UNCHANGED <<chanVars, recvVars, enq, rcvd, kdrop>>

\* the consumer calls recv(buf), buf.len() = n
RecvCall(n) ==
    /\ rpc = "idle"
    /\ rop' = "recv"
    /\ rlen' = n
    /\ rout' = <<>>
    /\ rret' = -1
    /\ rpc' = "recv"
    /\ UNCHANGED <<chanVars, sendVars, histVars>>

\* the consumer calls wait_full()
WaitFullCall ==
    /\ rpc = "idle"
    /\ rop' = "wait_full"
    /\ rlen' = 0
    /\ rout' = <<>>
    /\ rret' = -1
    /\ rpc' = "wf"
    /\ UNCHANGED <<chanVars, sendVars, histVars>>

ChanInit(len) ==
    /\ InnerInit(len)
    /\ spc = "idle" /\ sdata = <<>> /\ si = 0 /\ sret = "none"
    /\ rpc = "idle" /\ rop = "none" /\ rlen = 0 /\ rout = <<>> /\ rret = -1
    /\ sent = <<>> /\ enq = <<>> /\ rcvd = <<>> /\ kdrop = -1

SenderStep ==
    \/ SendReturnTrue
    \/ SendBlock
    \/ SendFail
    \/ SendChunk

ReceiverStep ==
    \/ RecvReturnFull
    \/ RecvBlock
    \/ RecvReturnShort
    \/ RecvChunk
    \/ WaitFullBlock
    \/ WaitFullReturn

\* ------------------------------------------------------------- engine.rs

\* AudioEngine::new: no source, the worker waiting for a message, the flag
\* false. Whether a freshly built stream already runs depends on the host.
EngineInit ==
    /\ playing = FALSE
    /\ stream \in {"paused", "run"}
    /\ worker_q = <<>> /\ wsrc = 0 /\ nadd = 0
    /\ source_infos = <<>>
    /\ start_pos = [id \in Srcs |-> INACTIVE]
    /\ sample_count = 0
    /\ lock = "free" /\ crash = "none"
    /\ sop = "none" /\ spar = 0
    /\ mpc = "idle" /\ mi = 0 /\ mlen = 0 /\ out = <<>> /\ odiv = 1 /\ tick = <<>>
    /\ mstart = <<>>
    /\ state = [id \in Srcs |-> "Inactive"]
    /\ handle = "none" /\ apc = "idle" /\ dpc = "none"
    /\ tpc = "idle" /\ tstream = [some |-> FALSE, v |-> 0]
    /\ tret = [kind |-> "none", ts |-> 0]
    /\ played = FALSE /\ glast = <<>>
    /\ calls = <<>>
    /\ tlast = [some |-> FALSE, st |-> 0, ts |-> 0, first |-> TRUE]

\* AudioEngine::add: a fresh start_pos cell, the factory sent to the worker;
\* worker_tx.send(..).expect(..) panics once the worker thread is gone
EngineAdd(id) ==
    /\ nadd < NSrc
    /\ id = nadd + 1
    /\ crash # "caller"
    /\ IF crash = "none"
       THEN /\ nadd' = id
            /\ worker_q' = Append(worker_q, id)
            /\ UNCHANGED crash
       ELSE /\ crash' = "caller"
            /\ UNCHANGED <<nadd, worker_q>>
    /\ UNCHANGED <<playing, stream, sop, spar, wsrc, source_infos, start_pos, sample_count, lock,
                   mixVars>>

StartNeededAlways(p) == TRUE

\* AudioEngine::start: if !self.playing.get()
StartNeeded(p) == ~p

PauseNeededAlways(p) == TRUE

\* AudioEngine::pause: if self.playing.get()
PauseNeeded(p) == p

\* AudioEngine::start
EngineStart ==
    /\ IF StartNeeded(playing)
       THEN /\ stream' = "run" /\ playing' = TRUE
            /\ sop' = "play" /\ spar' = 1 - spar
       ELSE UNCHANGED <<stream, playing, sop, spar>>
    /\ UNCHANGED <<worker_q, wsrc, nadd, source_infos, start_pos, sample_count, lock, crash,
                   mixVars>>

\* AudioEngine::pause
EnginePause ==
    /\ IF PauseNeeded(playing)
       THEN /\ stream' = "paused" /\ playing' = FALSE
            /\ sop' = "pause" /\ spar' = 1 - spar
       ELSE UNCHANGED <<stream, playing, sop, spar>>
    /\ UNCHANGED <<worker_q, wsrc, nadd, source_infos, start_pos, sample_count, lock, crash,
                   mixVars>>

LockAtRecvTaken(l) == "worker"

\* worker_impl: from recv to the return of source_factory() the worker
\* leaves the mutex alone
LockAtRecv(l) == l

\* worker_impl: worker_rx.recv() returns a message; the factory runs next
WorkerRecv ==
    /\ crash = "none"
    /\ wsrc = 0
    /\ worker_q # <<>>
    /\ LockAtRecv(lock) # lock => lock = "free"
    /\ lock' = LockAtRecv(lock)
    /\ wsrc' = Head(worker_q)
    /\ worker_q' = Tail(worker_q)
    /\ UNCHANGED <<playing, stream, sop, spar, nadd, source_infos, start_pos, sample_count, crash,
                   mixVars>>

\* worker_impl: the source is built; lock the list (the mixer holds the lock
\* for a whole callback), push, unlock at the end of the iteration
WorkerPush ==
    /\ crash = "none"
    /\ wsrc # 0
    /\ lock # "mixer"
    /\ source_infos' = Append(source_infos, wsrc)
    /\ wsrc' = 0
    /\ lock' = "free"
    /\ UNCHANGED <<playing, stream, sop, spar, worker_q, nadd, start_pos, sample_count, crash,
                   mixVars>>

SwapRemoveTail(s, i) == SubSeq(s, 1, Len(s) - 1)

\* Vec::swap_remove(i), i counted from 0
SwapRemove(s, i) ==
    LET n == Len(s)
    IN [k \in 1..(n - 1) |-> IF k = i + 1 THEN s[n] ELSE s[k]]

MixDivisorNone(i) == 1

\* mixer callback: the divisor of the accumulated buffer
MixDivisor(i) == IF i > 1 THEN i ELSE 1

\* mixer callback, entered by the backend while the stream runs: zero the
\* buffer of f frames, lock the list
MixBegin(f) ==
    /\ stream = "run"
    /\ mpc = "idle"
    /\ lock = "free"
    /\ lock' = "mixer"
    /\ mlen' = CHANNELS * f
    /\ out' = [k \in 1..(CHANNELS * f) |-> 0]
    /\ odiv' = 1
    /\ mi' = 0
    /\ tick' = <<>>
    /\ mstart' = source_infos
    /\ mpc' = "loop"
    /\ UNCHANGED <<playing, stream, sop, spar, worker_q, wsrc, nadd, source_infos, start_pos, sample_count,
                   crash>>

StartPosStoreAlways(sp, sc) == sc

\* mixer callback, Playing arm: if start_pos_val == INACTIVE, store
\* sample_count; sp is the value loaded, sc the counter
StartPosStore(sp, sc) == IF sp = INACTIVE THEN sc ELSE sp

\* mixer callback: the match on what get_samples returned for source id,
\* slot i of the list, scratch being source_buf_sl
MixBranch(id, res, scratch) ==
    /\ tick' = Append(tick, [id |-> id, res |-> res])
    /\ CASE res = "Inactive" ->
              /\ mpc' = IF start_pos[id] = INACTIVE THEN "loop" ELSE "panic"
              /\ mi' = mi + 1
              /\ UNCHANGED <<source_infos, start_pos, out>>
         [] res = "Playing" ->
              /\ start_pos' = [start_pos EXCEPT ![id] = StartPosStore(start_pos[id], sample_count)]
              /\ out' = [k \in 1..mlen |-> out[k] + scratch[k]]
              /\ mi' = mi + 1
              /\ mpc' = "loop"
              /\ UNCHANGED source_infos
         [] res = "Done" ->
              /\ source_infos' = SwapRemove(source_infos, mi)
              /\ mpc' = "loop"
              /\ UNCHANGED <<start_pos, out, mi>>
    /\ UNCHANGED <<playing, stream, sop, spar, worker_q, wsrc, nadd, sample_count, lock, crash, mlen,
                   odiv, mstart>>

\* mixer callback: after the loop, divide, advance sample_count, unlock
MixEnd ==
    /\ mpc = "loop"
    /\ mi >= Len(source_infos)
    /\ odiv' = MixDivisor(mi)
    /\ sample_count' = Min(sample_count + mlen \div CHANNELS, MaxCount)
    /\ mpc' = "idle"
    /\ lock' = "free"
    /\ UNCHANGED <<playing, stream, sop, spar, worker_q, wsrc, nadd, source_infos, start_pos, crash,
                   mi, mlen, out, tick, mstart>>

\* ------------------------------------------- sources of constant samples
\* An AudioSource that fills the buffer with one value and moves from
\* Inactive to Playing to Done on its own.

ConstGetSamples(id, len) == [res |-> state[id], buf |-> [k \in 1..len |-> ConstVal(id)]]

MixPollConst ==
    /\ mpc = "loop"
    /\ mi < Len(source_infos)
    /\ LET id == source_infos[mi + 1]
           r == ConstGetSamples(id, mlen)
       IN MixBranch(id, r.res, r.buf)
    /\ UNCHANGED <<srcVars, fileVars, tsVars>>

ConstAdd ==
    /\ EngineAdd(nadd + 1)
    /\ UNCHANGED <<state, fileVars, tsVars>>

ConstPlay(id) ==
    /\ id <= nadd
    /\ state[id] = "Inactive"
    /\ state' = [state EXCEPT ![id] = "Playing"]
    /\ UNCHANGED <<engVars, mixVars, fileVars, tsVars>>

ConstDone(id) ==
    /\ id <= nadd
    /\ state[id] # "Done"
    /\ state' = [state EXCEPT ![id] = "Done"]
    /\ UNCHANGED <<engVars, mixVars, fileVars, tsVars>>

\* --------------------------------------------------------------- file.rs
\* One file-backed source, source 1: its state cell, its handle, its decode
\* thread feeding the channel, its Receiver owned by the AudioFileSource.

FileSrc == 1

PlayGuardAlways(v) == TRUE

PlayGuardNever(v) == FALSE

\* AudioFileHandle::play: the test on the loaded state
PlayGuard(v) == v = "Inactive"

\* AudioFileFactory::source_factory_and_handle, called by add on the
\* caller's thread: it hands back the handle and the closure that builds the
\* source, and builds nothing itself
SourceFactoryAndHandle ==
    /\ handle' = "held"
    /\ UNCHANGED <<state, apc, dpc, tsVars>>

\* AudioEngine::add(AudioFileFactory): the handle is returned at once, the
\* factory travels to the worker
FileAdd ==
    /\ handle = "none"
    /\ crash = "none"
    /\ SourceFactoryAndHandle
    /\ EngineAdd(FileSrc)

\* AudioFileHandle::play: state.load
HandlePlayLoad ==
    /\ handle = "held"
    /\ apc = "idle" /\ tpc = "idle"
    /\ apc' = state[FileSrc]
    /\ UNCHANGED <<engVars, mixVars, state, handle, dpc, tsVars>>

\* AudioFileHandle::play: state.store(Playing) if Inactive was loaded
HandlePlayStore ==
    /\ apc # "idle"
    /\ state' = IF PlayGuard(apc) THEN [state EXCEPT ![FileSrc] = "Playing"] ELSE state
    /\ apc' = "idle"
    /\ played' = TRUE
    /\ UNCHANGED <<engVars, mixVars, handle, dpc, tpc, tstream, tret, glast>>

HandleDropNoStore ==
    /\ handle = "held"
    /\ apc = "idle" /\ tpc = "idle"
    /\ handle' = "dropped"
    /\ UNCHANGED <<engVars, mixVars, state, apc, dpc, tsVars>>

DropStoreInactive == "Inactive"

\* Drop for AudioFileHandle: the value stored
DropStore == "Done"

\* Drop for AudioFileHandle: state.store(Done)
HandleDrop ==
    /\ handle = "held"
    /\ apc = "idle" /\ tpc = "idle"
    /\ state' = [state EXCEPT ![FileSrc] = DropStore]
    /\ handle' = "dropped"
    /\ UNCHANGED <<engVars, mixVars, apc, dpc, tsVars>>

\* --- get_timestamp
\* Times are counted in frames: a stream time of v stands for v / sample_rate
\* seconds, as start_pos / sample_rate does for the start offset.

NoTs == [some |-> FALSE, v |-> 0]

\* Stream::get_timestamp: unavailable, or some time
StreamTs == {NoTs} \cup {[some |-> TRUE, v |-> t] : t \in 0..MaxTs}

SubrGetTimestampSigned(st, sp) ==
    IF ~st.some \/ sp = INACTIVE THEN NoTs ELSE [some |-> TRUE, v |-> st.v - sp]

SubrGetTimestampNoOffset(st, sp) ==
    IF ~st.some \/ sp = INACTIVE THEN NoTs ELSE [some |-> TRUE, v |-> st.v]

SubrGetTimestampAbs(st, sp) ==
    IF ~st.some \/ sp = INACTIVE THEN NoTs
    ELSE [some |-> TRUE, v |-> IF st.v < sp THEN sp - st.v ELSE st.v - sp]

\* AudioSubr::get_timestamp, st being the stream time and sp the start_pos
\* loaded
SubrGetTimestamp(st, sp) ==
    IF ~st.some THEN NoTs
    ELSE IF sp = INACTIVE THEN NoTs
    ELSE LET ts == st.v - sp
         IN IF ts < 0 THEN NoTs ELSE [some |-> TRUE, v |-> ts]

\* AudioFileHandle::get_timestamp, Playing arm: map_or(Unavail, Playing)
FileTimestamp(o) ==
    IF o.some THEN [kind |-> "Playing", ts |-> o.v] ELSE [kind |-> "Unavail", ts |-> 0]

\* AudioFileHandle::get_timestamp: state.load; Inactive and Done return at
\* once; Playing enters AudioSubr::get_timestamp, which reads the stream
\* time and returns None if there is none
HandleGetTimestamp ==
    /\ handle = "held"
    /\ apc = "idle" /\ tpc = "idle"
    /\ CASE state[FileSrc] = "Inactive" ->
              /\ tret' = [kind |-> "Inactive", ts |-> 0]
              /\ UNCHANGED <<tpc, tstream>>
         [] state[FileSrc] = "Done" ->
              /\ tret' = [kind |-> "Done", ts |-> 0]
              /\ UNCHANGED <<tpc, tstream>>
         [] state[FileSrc] = "Playing" ->
              \E st \in StreamTs :
                  /\ tstream' = st
                  /\ IF st.some
                     THEN tpc' = "load" /\ tret' = [kind |-> "none", ts |-> 0]
                     ELSE tpc' = "idle" /\ tret' = FileTimestamp(NoTs)
    /\ UNCHANGED <<engVars, mixVars, srcVars, fileVars, played, glast>>

\* AudioSubr::get_timestamp: start_pos.load and the rest
SubrLoad ==
    /\ tpc = "load"
    /\ tret' = FileTimestamp(SubrGetTimestamp(tstream, start_pos[FileSrc]))
    /\ tpc' = "idle"
    /\ UNCHANGED <<engVars, mixVars, srcVars, fileVars, tstream, played, glast>>

\* worker_impl runs the factory: build creates the channel, spawns the
\* decode thread and calls receiver.wait_full()
WorkerRecvFile ==
    /\ worker_q # <<>> /\ Head(worker_q) = FileSrc
    /\ WorkerRecv
    /\ dpc' = "run"
    /\ WaitFullCall
    /\ UNCHANGED <<state, handle, apc, tsVars>>

WorkerPushFileEarly ==
    /\ wsrc = FileSrc
    /\ WorkerPush
    /\ UNCHANGED <<srcVars, fileVars, tsVars, chanVars, sendVars, recvVars, histVars>>

\* build returns once wait_full has returned; worker_impl pushes the source
WorkerPushFile ==
    /\ wsrc = FileSrc
    /\ rop = "wait_full" /\ rpc = "idle"
    /\ WorkerPush
    /\ UNCHANGED <<srcVars, fileVars, tsVars, chanVars, sendVars, recvVars, histVars>>

\* decode thread: do_decode returned a packet of n samples; sender.send
DecodePacket(n) ==
    /\ dpc = "run"
    /\ sret # "false"
    /\ SendCall(n)
    /\ UNCHANGED audioVars

\* decode thread: do_decode returned None (end of stream); the closure ends
\* and drops the Sender
DecodeEof ==
    /\ dpc = "run"
    /\ sret # "false"
    /\ DropSender
    /\ dpc' = "done"
    /\ UNCHANGED <<engVars, mixVars, srcVars, handle, apc, tsVars>>

\* decode thread: send returned false; break, the closure ends and drops
\* the Sender
DecodeStop ==
    /\ dpc = "run"
    /\ sret = "false"
    /\ DropSender
    /\ dpc' = "done"
    /\ UNCHANGED <<engVars, mixVars, srcVars, handle, apc, tsVars>>

\* --- malformed or unsupported media

\* worker_impl runs the factory and build panics before the decode thread
\* exists: expect("Unable to probe"), expect("Unable to determine default
\* track"), expect("Unable to create decoder"). The worker thread unwinds;
\* its queue end and the message are dropped
ProbeFail ==
    /\ crash = "none"
    /\ wsrc = 0
    /\ worker_q # <<>> /\ Head(worker_q) = FileSrc
    /\ worker_q' = Tail(worker_q)
    /\ crash' = "worker"
    /\ UNCHANGED <<playing, stream, sop, spar, wsrc, nadd, source_infos, start_pos, sample_count, lock,
                   mixVars, srcVars, fileVars, tsVars>>

\* decode thread: do_decode panics ("I/O error", "Decode error"); the
\* thread unwinds and drops the Sender
DecodeError ==
    /\ dpc = "run"
    /\ sret # "false"
    /\ DropSender
    /\ dpc' = "panic"
    /\ UNCHANGED <<engVars, mixVars, srcVars, handle, apc, tsVars>>

\* --- another source next to the file source

\* a later add call
LateAdd ==
    /\ nadd >= 1
    /\ nadd < 1 + MaxLate
    /\ ConstAdd

WorkerRecvOther ==
    /\ worker_q # <<>> /\ Head(worker_q) # FileSrc
    /\ WorkerRecv
    /\ UNCHANGED <<srcVars, fileVars, tsVars>>

WorkerPushOther ==
    /\ wsrc # FileSrc
    /\ WorkerPush
    /\ UNCHANGED <<srcVars, fileVars, tsVars>>

MixPollOther ==
    /\ mi < Len(source_infos)
    /\ source_infos[mi + 1] # FileSrc
    /\ MixPollConst

PadSilenceStale(got, len) == [k \in 1..len |-> IF k <= Len(got) THEN got[k] ELSE 1]

\* AudioFileSource::get_samples, the tail of the Playing arm: a short read
\* is padded with silence
PadSilence(got, len) == [k \in 1..len |-> IF k <= Len(got) THEN got[k] ELSE 0]

\* mixer callback entry with a file source around: buf is no longer than
\* source_buf (the assert), a third of the channel of a file source
MixBeginFile(f) ==
    /\ CHANNELS * f <= cap
    /\ MixBegin(f)

\* history: the last two results of the file source's get_samples, each
\* with the number of samples recv returned and the length of the buffer
GLog(g, res, len, blen) == LastN(Append(g, [res |-> res, len |-> len, blen |-> blen]), 2)

\* mixer callback on the file source: get_samples loads the state; Inactive
\* and Done return at once (a Done source is removed and dropped, its
\* Receiver with it), Playing calls receiver.recv(buf)
MixPollFile ==
    /\ mpc = "loop"
    /\ mi < Len(source_infos)
    /\ source_infos[mi + 1] = FileSrc
    /\ CASE state[FileSrc] = "Inactive" ->
              /\ MixBranch(FileSrc, "Inactive", <<>>)
              /\ glast' = GLog(glast, "Inactive", 0, mlen)
              /\ UNCHANGED <<chanVars, sendVars, recvVars, histVars>>
         [] state[FileSrc] = "Done" ->
              /\ MixBranch(FileSrc, "Done", <<>>)
              /\ glast' = GLog(glast, "Done", 0, mlen)
              /\ DropReceiver
         [] state[FileSrc] = "Playing" ->
              /\ RecvCall(mlen)
              /\ mpc' = "recv"
              /\ UNCHANGED <<engVars, mi, mlen, out, odiv, tick, mstart, glast>>
    /\ UNCHANGED <<srcVars, fileVars, tpc, tstream, tret, played>>

RecvEndedNever(len) == FALSE

\* AudioFileSource::get_samples: if len == 0
RecvEnded(len) == len = 0

\* mixer callback on the file source: recv has returned len; 0 stores Done
\* and returns Done, anything else returns Playing
MixRecvDone ==
    /\ mpc = "recv"
    /\ rpc = "idle"
    /\ IF RecvEnded(rret)
       THEN /\ state' = [state EXCEPT ![FileSrc] = "Done"]
            /\ MixBranch(FileSrc, "Done", <<>>)
            /\ glast' = GLog(glast, "Done", 0, mlen)
            /\ DropReceiver
       ELSE /\ MixBranch(FileSrc, "Playing", PadSilence(rout, mlen))
            /\ glast' = GLog(glast, "Playing", rret, mlen)
            /\ UNCHANGED <<srcVars, chanVars, sendVars, recvVars, histVars>>
    /\ UNCHANGED <<fileVars, tpc, tstream, tret, played>>

\* ------------------------------------- file.rs: the resampling decode loop
\* The decode thread of a file whose rate differs from the engine's. The
\* frames of the stream are numbered 1, 2, ...; silence is 0. The resampler
\* (rubato FftFixedInOut) takes blocks of blk frames, and for the rates
\* 22050 -> 44100 returns RATIO frames for each frame taken.

RATIO == 2

\* no resampling loop is running
ResOff ==
    /\ qpc = "off" /\ blk = 1 /\ in_buf = <<0>> /\ in_i = 0
    /\ dbuf = <<>> /\ dbi = 0 /\ end = FALSE
    /\ flen = 0 /\ nfr = 0 /\ rin = <<>> /\ nout = 0

\* the loop is entered: buffers created, decoded_buf_opt = None, in_i = 0,
\* end = false
ResInit(b, f) ==
    /\ qpc = "collect" /\ blk = b /\ in_buf = [k \in 1..b |-> 0] /\ in_i = 0
    /\ dbuf = <<>> /\ dbi = 0 /\ end = FALSE
    /\ flen = f /\ nfr = 0 /\ rin = <<>> /\ nout = 0

\* rate_conv_opt is None: the direct loop is entered
ResInitDirect(f) ==
    /\ qpc = "direct" /\ blk = 1 /\ in_buf = <<0>> /\ in_i = 0
    /\ dbuf = <<>> /\ dbi = 0 /\ end = FALSE
    /\ flen = f /\ nfr = 0 /\ rin = <<>> /\ nout = 0

\* todo = min(decoded_buf.len - decoded_buf.i, in_next - in_i)
CopyTodo(dlen, di, need) == Min(dlen - di, need)

KeepDecodedNever(di, dlen) == FALSE

\* decoded_buf_opt stays Some unless decoded_buf.i == decoded_buf.len
KeepDecoded(di, dlen) == di # dlen

\* in_buf[in_i..in_i + todo].copy_from_slice(decoded_buf[i..i + todo])
CopyIn(b, at, src, from, todo) ==
    [k \in 1..Len(b) |-> IF k > at /\ k <= at + todo THEN src[from + (k - at)] ELSE b[k]]

FillSilenceNone(b, at) == b

\* in_buf[in_i..in_next].fill(0.0)
FillSilence(b, at) == [k \in 1..Len(b) |-> IF k > at THEN 0 ELSE b[k]]

\* in_buf.copy_within(in_rd..in_i, 0) if 0 < in_rd < in_i
ConsumeInput(b, ii, in_rd) ==
    IF in_rd > 0 /\ in_rd < ii
    THEN [k \in 1..Len(b) |-> IF k <= ii - in_rd THEN b[k + in_rd] ELSE b[k]]
    ELSE b

FramesSentIn(in_rd, out_wr) == in_rd

\* sender.send(&interleave_buf[..channels * out_wr]): out_wr frames
FramesSent(in_rd, out_wr) == out_wr

\* inner loop: todo == 0, break
ResCollectFull ==
    /\ qpc = "collect"
    /\ blk - in_i = 0
    /\ qpc' = "convert"
    /\ UNCHANGED <<blk, in_buf, in_i, dbuf, dbi, end, flen, nfr, rin, nout>>

\* inner loop: no decoded buffer and do_decode returns None: the rest of the
\* block is silence, end = true, break
ResCollectEof ==
    /\ qpc = "collect"
    /\ blk - in_i > 0
    /\ dbuf = <<>>
    /\ nfr = flen
    /\ in_buf' = FillSilence(in_buf, in_i)
    /\ in_i' = in_i + (blk - in_i)
    /\ end' = TRUE
    /\ qpc' = "convert"
    /\ UNCHANGED <<blk, dbuf, dbi, flen, nfr, rin, nout>>

\* inner loop: a decoded buffer is at hand, or do_decode returns the next
\* packet, of n frames; copy what fits, consume the decoded buffer
ResCollectCopy(n) ==
    /\ qpc = "collect"
    /\ blk - in_i > 0
    /\ IF dbuf = <<>> THEN nfr + n <= flen ELSE n = Len(dbuf)
    /\ LET fresh == dbuf = <<>>
           d == IF fresh THEN [j \in 1..n |-> nfr + j] ELSE dbuf
           di == IF fresh THEN 0 ELSE dbi
           todo == CopyTodo(Len(d), di, blk - in_i)
       IN /\ nfr' = IF fresh THEN nfr + n ELSE nfr
          /\ in_buf' = CopyIn(in_buf, in_i, d, di, todo)
          /\ in_i' = in_i + todo
          /\ IF KeepDecoded(di + todo, Len(d))
             THEN dbuf' = d /\ dbi' = di + todo
             ELSE dbuf' = <<>> /\ dbi' = 0
    /\ UNCHANGED <<qpc, blk, end, flen, rin, nout>>

\* assert!(in_i == in_next); process_into_buffer takes the block and
\* returns (in_rd, out_wr); the input is consumed; the output is sent. ok is
\* what send returns: false (the consumer is gone) breaks the loop
ResConvert(ok) ==
    /\ qpc = "convert"
    /\ IF in_i # blk
       THEN /\ qpc' = "panic"
            /\ UNCHANGED <<in_buf, in_i, rin, nout>>
       ELSE LET in_rd == blk
                out_wr == RATIO * blk
            IN /\ rin' = rin \o in_buf
               /\ in_buf' = ConsumeInput(in_buf, in_i, in_rd)
               /\ in_i' = in_i - in_rd
               /\ nout' = IF ok THEN nout + FramesSent(in_rd, out_wr) ELSE nout
               /\ qpc' = IF ~ok THEN "stopped" ELSE IF end THEN "done" ELSE "collect"
    /\ UNCHANGED <<blk, dbuf, dbi, end, flen, nfr>>

\* direct path: do_decode(true) returns the next packet, of n frames, and
\* it is sent whole; ok is what send returns. Here rin records the frames
\* pushed into the channel
ResDirect(n, ok) ==
    /\ qpc = "direct"
    /\ nfr + n <= flen
    /\ nfr' = nfr + n
    /\ IF ok
       THEN /\ rin' = rin \o [j \in 1..n |-> nfr + j]
            /\ nout' = nout + n
            /\ qpc' = qpc
       ELSE /\ qpc' = "dstopped"
            /\ UNCHANGED <<rin, nout>>
    /\ UNCHANGED <<blk, in_buf, in_i, dbuf, dbi, end, flen>>

\* direct path: do_decode(true) returns None, the loop ends
ResDirectEof ==
    /\ qpc = "direct"
    /\ nfr = flen
    /\ qpc' = "ddone"
    /\ UNCHANGED <<blk, in_buf, in_i, dbuf, dbi, end, flen, nfr, rin, nout>>

\* the closure of the decode thread returns after either loop: the Sender
\* it owns is dropped
ResExit ==
    /\ qpc \in {"done", "stopped", "ddone", "dstopped"}
    /\ send_alive
    /\ DropSender
    /\ UNCHANGED resVars

\* ---------------------------------------------------------- specifications

\* the channel in the hands of one producer and one consumer
Init ==
    /\ \E len \in 1..MaxCap : ChanInit(len)
    /\ EngineInit
    /\ stream = "paused"
    /\ ResOff

Next ==
    \/ (\E n \in 0..MaxReq : SendCall(n)) /\ UNCHANGED audioVars /\ UNCHANGED <<resVars, logVars>>
    \/ (\E n \in 0..MaxReq : RecvCall(n)) /\ UNCHANGED audioVars /\ UNCHANGED <<resVars, logVars>>
    \/ WaitFullCall /\ UNCHANGED audioVars /\ UNCHANGED <<resVars, logVars>>
    \/ SendReturnTrue /\ UNCHANGED audioVars /\ UNCHANGED <<resVars, logVars>>
    \/ SendBlock /\ UNCHANGED audioVars /\ UNCHANGED <<resVars, logVars>>
    \/ SendFail /\ UNCHANGED audioVars /\ UNCHANGED <<resVars, logVars>>
    \/ SendChunk /\ UNCHANGED audioVars /\ UNCHANGED <<resVars, logVars>>
    \/ SendSpurious /\ UNCHANGED audioVars /\ UNCHANGED <<resVars, logVars>>
    \/ DropSender /\ UNCHANGED audioVars /\ UNCHANGED <<resVars, logVars>>
    \/ RecvReturnFull /\ UNCHANGED audioVars /\ UNCHANGED <<resVars, logVars>>
    \/ RecvBlock /\ UNCHANGED audioVars /\ UNCHANGED <<resVars, logVars>>
    \/ RecvReturnShort /\ UNCHANGED audioVars /\ UNCHANGED <<resVars, logVars>>
    \/ RecvChunk /\ UNCHANGED audioVars /\ UNCHANGED <<resVars, logVars>>
    \/ WaitFullBlock /\ UNCHANGED audioVars /\ UNCHANGED <<resVars, logVars>>
    \/ WaitFullReturn /\ UNCHANGED audioVars /\ UNCHANGED <<resVars, logVars>>
    \/ RecvSpurious /\ UNCHANGED audioVars /\ UNCHANGED <<resVars, logVars>>
    \/ DropReceiver /\ UNCHANGED audioVars /\ UNCHANGED <<resVars, logVars>>

Spec == Init /\ [][Next]_vars

\* a runnable thread is eventually scheduled
FairSpec ==
    /\ Spec
    /\ WF_vars(SenderStep /\ UNCHANGED <<audioVars, resVars, logVars>>)
    /\ WF_vars(ReceiverStep /\ UNCHANGED <<audioVars, resVars, logVars>>)

\* the engine mixing sources of constant samples
InitMixer ==
    /\ ChanInit(1)
    /\ EngineInit
    /\ ResOff

NextMixer ==
    \/ ConstAdd /\ UNCHANGED chanAll /\ UNCHANGED <<resVars, logVars>>
    \/ (\E id \in Srcs : ConstPlay(id)) /\ UNCHANGED chanAll /\ UNCHANGED <<resVars, logVars>>
    \/ (\E id \in Srcs : ConstDone(id)) /\ UNCHANGED chanAll /\ UNCHANGED <<resVars, logVars>>
    \/ WorkerRecv /\ UNCHANGED <<srcVars, fileVars, tsVars, chanAll>> /\ UNCHANGED <<resVars, logVars>>
    \/ WorkerPush /\ UNCHANGED <<srcVars, fileVars, tsVars, chanAll>> /\ UNCHANGED <<resVars, logVars>>
    \/ EngineStart /\ UNCHANGED <<srcVars, fileVars, tsVars, chanAll>> /\ UNCHANGED <<resVars, logVars>>
    \/ (\E f \in 1..MaxFrames : MixBegin(f)) /\ UNCHANGED <<srcVars, fileVars, tsVars, chanAll>> /\ UNCHANGED <<resVars, logVars>>
    \/ MixPollConst /\ UNCHANGED chanAll /\ UNCHANGED <<resVars, logVars>>
    \/ MixEnd /\ UNCHANGED <<srcVars, fileVars, tsVars, chanAll>> /\ UNCHANGED <<resVars, logVars>>

SpecMixer == InitMixer /\ [][NextMixer]_vars

\* the engine with one file-backed source
InitFile ==
    /\ ChanInit(FileCap)
    /\ EngineInit
    /\ ResOff

DecodeThread ==
    \/ (\E n \in 1..MaxPkt : DecodePacket(n))
    \/ DecodeEof
    \/ DecodeStop
    \/ SenderStep /\ UNCHANGED audioVars

WorkerThread ==
    \/ WorkerRecvFile
    \/ WorkerPushFile
    \/ (WaitFullBlock \/ WaitFullReturn) /\ UNCHANGED audioVars

MixerThread ==
    \/ (\E f \in 1..MaxFrames : MixBeginFile(f)) /\ UNCHANGED <<srcVars, fileVars, tsVars, chanAll>>
    \/ MixPollFile
    \/ MixRecvDone
    \/ MixEnd /\ UNCHANGED <<srcVars, fileVars, tsVars, chanAll>>
    \/ (RecvReturnFull \/ RecvBlock \/ RecvReturnShort \/ RecvChunk) /\ UNCHANGED audioVars

NextFile ==
    \/ FileAdd /\ UNCHANGED chanAll /\ UNCHANGED <<resVars, logVars>>
    \/ HandlePlayLoad /\ UNCHANGED chanAll /\ UNCHANGED <<resVars, logVars>>
    \/ HandlePlayStore /\ UNCHANGED chanAll /\ UNCHANGED <<resVars, logVars>>
    \/ HandleDrop /\ UNCHANGED chanAll /\ UNCHANGED <<resVars, logVars>>
    \/ EngineStart /\ UNCHANGED <<srcVars, fileVars, tsVars, chanAll>> /\ UNCHANGED <<resVars, logVars>>
    \/ EnginePause /\ UNCHANGED <<srcVars, fileVars, tsVars, chanAll>> /\ UNCHANGED <<resVars, logVars>>
    \/ WorkerRecvFile /\ UNCHANGED <<resVars, logVars>>
    \/ WorkerPushFile /\ UNCHANGED <<resVars, logVars>>
    \/ WaitFullBlock /\ UNCHANGED audioVars /\ UNCHANGED <<resVars, logVars>>
    \/ WaitFullReturn /\ UNCHANGED audioVars /\ UNCHANGED <<resVars, logVars>>
    \/ (\E n \in 1..MaxPkt : DecodePacket(n)) /\ UNCHANGED <<resVars, logVars>>
    \/ DecodeEof /\ UNCHANGED <<resVars, logVars>>
    \/ DecodeStop /\ UNCHANGED <<resVars, logVars>>
    \/ SendReturnTrue /\ UNCHANGED audioVars /\ UNCHANGED <<resVars, logVars>>
    \/ SendBlock /\ UNCHANGED audioVars /\ UNCHANGED <<resVars, logVars>>
    \/ SendFail /\ UNCHANGED audioVars /\ UNCHANGED <<resVars, logVars>>
    \/ SendChunk /\ UNCHANGED audioVars /\ UNCHANGED <<resVars, logVars>>
    \/ SendSpurious /\ UNCHANGED audioVars /\ UNCHANGED <<resVars, logVars>>
    \/ (\E f \in 1..MaxFrames : MixBeginFile(f)) /\ UNCHANGED <<srcVars, fileVars, tsVars, chanAll>> /\ UNCHANGED <<resVars, logVars>>
    \/ MixPollFile /\ UNCHANGED <<resVars, logVars>>
    \/ MixRecvDone /\ UNCHANGED <<resVars, logVars>>
    \/ MixEnd /\ UNCHANGED <<srcVars, fileVars, tsVars, chanAll>> /\ UNCHANGED <<resVars, logVars>>
    \/ RecvReturnFull /\ UNCHANGED audioVars /\ UNCHANGED <<resVars, logVars>>
    \/ RecvBlock /\ UNCHANGED audioVars /\ UNCHANGED <<resVars, logVars>>
    \/ RecvReturnShort /\ UNCHANGED audioVars /\ UNCHANGED <<resVars, logVars>>
    \/ RecvChunk /\ UNCHANGED audioVars /\ UNCHANGED <<resVars, logVars>>
    \/ RecvSpurious /\ UNCHANGED audioVars /\ UNCHANGED <<resVars, logVars>>

SpecFile == InitFile /\ [][NextFile]_vars

\* the same, the application also asking for the playback position
NextTime ==
    \/ NextFile
    \/ HandleGetTimestamp /\ UNCHANGED chanAll /\ UNCHANGED <<resVars, logVars>>
    \/ SubrLoad /\ UNCHANGED chanAll /\ UNCHANGED <<resVars, logVars>>

SpecTime == InitFile /\ [][NextTime]_vars

\* the application keeps the last position it was given
SubrLoadLog ==
    /\ SubrLoad
    /\ tlast' = IF tret'.kind = "Playing"
                THEN [some |-> TRUE, st |-> tstream.v, ts |-> tret'.ts, first |-> ~tlast.some]
                ELSE tlast
    /\ UNCHANGED calls

NextMono ==
    \/ NextFile
    \/ HandleGetTimestamp /\ UNCHANGED <<chanAll, resVars, logVars>>
    \/ SubrLoadLog /\ UNCHANGED <<chanAll, resVars>>

SpecMono == InitFile /\ [][NextMono]_vars

\* the file source with media that may fail, and later sources beside it
NextMedia ==
    \/ NextFile
    \/ ProbeFail /\ UNCHANGED chanAll /\ UNCHANGED <<resVars, logVars>>
    \/ DecodeError /\ UNCHANGED <<resVars, logVars>>
    \/ LateAdd /\ UNCHANGED chanAll /\ UNCHANGED <<resVars, logVars>>
    \/ WorkerRecvOther /\ UNCHANGED chanAll /\ UNCHANGED <<resVars, logVars>>
    \/ WorkerPushOther /\ UNCHANGED chanAll /\ UNCHANGED <<resVars, logVars>>
    \/ MixPollOther /\ UNCHANGED chanAll /\ UNCHANGED <<resVars, logVars>>
    \/ (\E id \in Srcs \ {FileSrc} : ConstPlay(id)) /\ UNCHANGED chanAll /\ UNCHANGED <<resVars, logVars>>

SpecMedia == InitFile /\ [][NextMedia]_vars

\* the application calling start and pause in any order
StartCall ==
    /\ Len(calls) < MaxCalls
    /\ EngineStart
    /\ calls' = Append(calls, "start")

PauseCall ==
    /\ Len(calls) < MaxCalls
    /\ EnginePause
    /\ calls' = Append(calls, "pause")

InitCtl ==
    /\ ChanInit(1)
    /\ EngineInit
    /\ ResOff

NextCtl ==
    \/ StartCall /\ UNCHANGED <<srcVars, fileVars, tsVars, chanAll, resVars, tlast>>
    \/ PauseCall /\ UNCHANGED <<srcVars, fileVars, tsVars, chanAll, resVars, tlast>>

SpecCtl == InitCtl /\ [][NextCtl]_vars

\* the resampling loop of one decode thread, over every stream, packet
\* division and block size within the bounds
InitResample ==
    /\ ChanInit(1)
    /\ EngineInit
    /\ stream = "paused"
    /\ \E f \in 0..MaxStream :
          \/ \E b \in 1..MaxBlock : ResInit(b, f)
          \/ ResInitDirect(f)

NextResample ==
    \/ ResCollectFull /\ UNCHANGED <<chanAll, audioVars, logVars>>
    \/ ResCollectEof /\ UNCHANGED <<chanAll, audioVars, logVars>>
    \/ (\E n \in 1..MaxPkt : ResCollectCopy(n)) /\ UNCHANGED <<chanAll, audioVars, logVars>>
    \/ (\E ok \in BOOLEAN : ResConvert(ok)) /\ UNCHANGED <<chanAll, audioVars, logVars>>
    \/ (\E n \in 1..MaxPkt : \E ok \in BOOLEAN : ResDirect(n, ok)) /\ UNCHANGED <<chanAll, audioVars, logVars>>
    \/ ResDirectEof /\ UNCHANGED <<chanAll, audioVars, logVars>>
    \/ ResExit /\ UNCHANGED <<audioVars, logVars>>

SpecResample == InitResample /\ [][NextResample]_vars

\* Every runnable thread is eventually scheduled. The backend calls the
\* mixer again and again while the stream runs, also when the application
\* keeps toggling start and pause. The worker, waiting for the list lock
\* that the mixer releases after every callback, eventually gets it. Start,
\* pause, play and the drop of the handle are up to the application.
FairSpecFile ==
    /\ SpecFile
    /\ WF_vars(DecodeThread /\ UNCHANGED <<resVars, logVars>>)
    /\ WF_vars(WorkerThread /\ UNCHANGED <<resVars, logVars>>)
    /\ SF_vars(WorkerPushFile /\ UNCHANGED <<resVars, logVars>>)
    /\ SF_vars(MixerThread /\ UNCHANGED <<resVars, logVars>>)

\* the same with the application asking for the playback position whenever
\* it likes
FairSpecTime ==
    /\ SpecTime
    /\ WF_vars(DecodeThread /\ UNCHANGED <<resVars, logVars>>)
    /\ WF_vars(WorkerThread /\ UNCHANGED <<resVars, logVars>>)
    /\ SF_vars(WorkerPushFile /\ UNCHANGED <<resVars, logVars>>)
    /\ SF_vars(MixerThread /\ UNCHANGED <<resVars, logVars>>)

\* ------------------------------------------------------ channel properties

\* the filled cells of the ring, oldest first
RingContents == [j \in 1..filled |-> buf[(recv_i + j - 1) % cap]]

\* what a recv in progress has copied and not yet returned
RecvInFlight == IF rpc \in {"recv", "recvwait"} THEN rout ELSE <<>>

Range(s) == {s[j] : j \in DOMAIN s}

SendReturns == spc = "run" /\ spc' = "idle"

RecvReturns == rpc = "recv" /\ rpc' = "idle"

\* C1: what recv has returned is a prefix of what was passed to send, and
\* what was written to the ring is exactly what was returned, what the running
\* recv has copied and what is still buffered, in that order: nothing is
\* lost, duplicated or reordered, wraparound included.
C1_RoundTrip ==
    /\ IsPrefix(rcvd, sent)
    /\ IsPrefix(enq, sent)
    /\ rcvd \o RecvInFlight \o RingContents = enq

\* a send and a recv larger than the capacity both completed, after the
\* cursors wrapped
C1_Witness ==
    /\ cap >= 2
    /\ spc = "idle" /\ sret = "true" /\ Len(sdata) > cap
    /\ rpc = "idle" /\ rop = "recv" /\ rlen > cap /\ rret = rlen
    /\ Len(rcvd) > cap

\* C2 as stated: after the Receiver was dropped every send call that returns,
\* returns false, whatever its slice, and nothing is written to the ring.
C2_Original ==
    [][~recv_alive =>
         /\ (SendReturns => sret' = "false")
         /\ UNCHANGED <<filled, send_i, buf>>]_vars

\* C2 as amended: after the Receiver was dropped a send that still has an
\* element to enqueue returns false and a send with nothing left to enqueue
\* (an empty slice, or the last chunk copied before the drop) returns true;
\* the sender does not stay parked, and nothing is written to the ring.
C2_SendAfterReceiverDrop ==
    [][~recv_alive =>
         /\ (SendReturns => (sret' = "false" <=> si < Len(sdata)))
         /\ spc' # "wait"
         /\ UNCHANGED <<filled, send_i, buf>>]_vars

\* a send that had enqueued a part of its slice found the buffer full, the
\* Receiver was dropped, and the send returned false
C2_Witness ==
    /\ ~recv_alive
    /\ spc = "idle" /\ sret = "false"
    /\ si > 0 /\ filled = cap

\* C3: once the Sender is dropped no recv or wait_full stays parked; a recv
\* that returns has its whole request or has drained the buffer, and then
\* everything ever enqueued has been returned; a recv on the drained buffer
\* returns 0, and the buffer stays drained.
C3_DrainAfterSenderDrop ==
    [][~send_alive' =>
         /\ rpc' \notin {"recvwait", "wfwait"}
         /\ (RecvReturns => (rret' = rlen \/ (filled' = 0 /\ rcvd' = enq')))
         /\ (rpc' = "idle" /\ filled' = 0 /\ rop' # "wait_full" => rcvd' = enq')
         /\ ((~send_alive /\ filled = 0 /\ rpc = "recv" /\ rout = <<>> /\ rpc' # rpc)
                => (rpc' = "idle" /\ rret' = 0))
         /\ (~send_alive /\ filled = 0 => filled' = 0)]_vars

\* the Sender was dropped with at least two elements buffered, they have been
\* received, and a later recv returned 0
C3_Witness ==
    /\ ~send_alive /\ kdrop >= 2
    /\ filled = 0 /\ rcvd = enq
    /\ rpc = "idle" /\ rop = "recv" /\ rlen > 0 /\ rret = 0

\* C4: a recv that returns fewer elements than requested returns with the
\* Sender dead and the buffer empty.
C4_ShortReadOnlyAtEnd ==
    [][(RecvReturns /\ rret' < rlen) => (~send_alive' /\ filled' = 0)]_vars

\* a recv returned a part of its request
C4_Witness ==
    /\ rpc = "idle" /\ rop = "recv"
    /\ rret > 0 /\ rret < rlen

\* C5: wait_full returns only with the buffer full or the Sender dead, does
\* not park when the Sender is dead, and returns whenever the buffer is full
\* or the Sender dead while it is in progress.
C5_WaitFull ==
    /\ [][(rpc \in {"wf", "wfwait"} /\ rpc' = "idle") => (filled = cap \/ ~send_alive)]_vars
    /\ [][~send_alive' => rpc' # "wfwait"]_vars
    /\ ((rpc \in {"wf", "wfwait"} /\ (filled = cap \/ ~send_alive)) ~> rpc = "idle")

\* wait_full returned on a buffer filled by more than one send
C5_Witness ==
    /\ rpc = "idle" /\ rop = "wait_full"
    /\ send_alive /\ filled = cap /\ cap >= 2
    /\ Len(sent) > Len(sdata)

\* C6: the fill level and both cursors stay in range and agree.
C6_Inv ==
    /\ filled \in 0..cap
    /\ send_i \in 0..(cap - 1)
    /\ recv_i \in 0..(cap - 1)
    /\ (send_i - recv_i) % cap = filled % cap

\* the write cursor has wrapped and is behind the read cursor
C6_Witness ==
    /\ send_i < recv_i
    /\ filled > 0 /\ filled < cap

\* C7 as stated: a send returns true with its whole slice enqueued or false
\* with the consumer dead, and no element of a slice whose send returned
\* false has been returned by a recv.
C7_Original ==
    /\ (spc = "idle" /\ sret = "true" => LastN(enq, Len(sdata)) = sdata)
    /\ (spc = "idle" /\ sret = "false" =>
           /\ ~recv_alive
           /\ Range(rcvd) \cap Range(sdata) = {})

\* C7 as amended: a send returns true with its whole slice enqueued, or
\* false with the consumer dead and only a proper prefix of its slice
\* enqueued; the elements of that slice a recv has returned belong to that
\* prefix.
C7_SendAllOrClosed ==
    /\ (spc = "idle" /\ sret = "true" => LastN(enq, Len(sdata)) = sdata)
    /\ (spc = "idle" /\ sret = "false" =>
           /\ ~recv_alive
           /\ si < Len(sdata)
           /\ LastN(enq, si) = SubSeq(sdata, 1, si)
           /\ Range(rcvd) \cap Range(sdata) \subseteq Range(SubSeq(sdata, 1, si)))

\* a send returned false after a recv had returned elements of its slice
C7_Witness ==
    /\ spc = "idle" /\ sret = "false"
    /\ Range(rcvd) \cap Range(sdata) # {}

\* ------------------------------------------------------- engine properties

Rank(st) == CASE st = "Inactive" -> 0 [] st = "Playing" -> 1 [] st = "Done" -> 2

\* C8: the state cell of the file source never moves back: not from Done to
\* Playing or Inactive, not from Playing to Inactive.
C8_StateMonotonic ==
    [][Rank(state'[FileSrc]) >= Rank(state[FileSrc])]_vars

\* a second play() has loaded Playing, and the mixer, having drained the
\* channel, has stored Done before play() decides whether to store
C8_Witness ==
    /\ handle = "held"
    /\ apc = "Playing"
    /\ state[FileSrc] = "Done"

RECURSIVE TickSum(_)
\* the sum of the sample values of the sources polled in this callback
TickSum(t) == IF t = <<>> THEN 0 ELSE ConstVal(Head(t).id) + TickSum(Tail(t))

TickAllPlaying == tick # <<>> /\ \A j \in DOMAIN tick : tick[j].res = "Playing"

\* C9: after a callback in which the N polled sources all returned Playing,
\* every output sample out[k] / odiv equals (v_1 + ... + v_N) / N.
C9_MixingLaw ==
    (mpc = "idle" /\ TickAllPlaying) =>
        \A k \in 1..mlen : out[k] * Len(tick) = TickSum(tick) * odiv

\* a callback has mixed three Playing sources
C9_Witness ==
    /\ mpc = "idle"
    /\ TickAllPlaying
    /\ Len(tick) = 3

\* C10: once the handle is dropped while the decode thread runs, the
\* Receiver gets dropped and the decode thread terminates.
C10_Teardown ==
    (handle = "dropped" /\ dpc = "run") ~> (~recv_alive /\ dpc = "done")

\* ------------------------------------------------- file source properties

\* the mixer is about to call get_samples on the file source
FilePollDue ==
    /\ mpc = "loop"
    /\ mi < Len(source_infos)
    /\ source_infos[mi + 1] = FileSrc

\* C11: once the handle is dropped, a get_samples call of its source that
\* starts afterwards returns Done, reads nothing from the channel and leaves
\* the mixer's buffer as it was; and when the handle is dropped while the
\* state is Inactive, no get_samples call is in flight and the start offset
\* is unset, and from then on it stays unset.
C11_DroppedIsSilent ==
    [][ /\ (handle = "dropped" /\ FilePollDue /\ (tick' # tick \/ mpc' # mpc))
            => /\ tick' = Append(tick, [id |-> FileSrc, res |-> "Done"])
               /\ mpc' = "loop"
               /\ out' = out
               /\ UNCHANGED <<buf, recv_i, filled, rout, rcvd, start_pos>>
        /\ (handle = "held" /\ handle' = "dropped" /\ state[FileSrc] = "Inactive")
            => (mpc' # "recv" /\ start_pos'[FileSrc] = INACTIVE)
        /\ (handle = "dropped" /\ mpc # "recv" /\ start_pos[FileSrc] = INACTIVE)
            => (mpc' # "recv" /\ start_pos'[FileSrc] = INACTIVE)
      ]_vars

\* the handle was dropped with samples buffered and the source in the list;
\* the mixer has polled it since and got Done
C11_Witness ==
    /\ handle = "dropped"
    /\ filled > 0
    /\ tick # <<>>
    /\ tick[Len(tick)] = [id |-> FileSrc, res |-> "Done"]
    /\ start_pos[FileSrc] = INACTIVE

\* ---------------------------------------------------- timestamp properties

\* an AudioSubr::get_timestamp call returns
SubrReturns == tret' # tret /\ tret'.kind \in {"Unavail", "Playing"}

\* C12: AudioSubr::get_timestamp returns None when the stream time is
\* unavailable and when start_pos still holds the sentinel, and a position
\* it returns is never negative, however the mixer interleaves.
C12_NeverNegative ==
    [][ SubrReturns =>
          /\ ~tstream'.some => tret'.kind = "Unavail"
          /\ start_pos[FileSrc] = INACTIVE => tret'.kind = "Unavail"
          /\ tret'.kind = "Playing" => tret'.ts >= 0
      ]_vars

\* a call found the stream time behind the recorded start offset and
\* returned None
C12_Witness ==
    /\ tpc = "idle"
    /\ tret.kind = "Unavail"
    /\ tstream.some
    /\ start_pos[FileSrc] # INACTIVE
    /\ tstream.v < start_pos[FileSrc]

\* C13: with the start offset S0 recorded, a call at stream time S >= S0
\* returns S - S0 (in frames, that is (S - S0) / sample_rate seconds); a call
\* that loads start_pos before the mixer recorded S0, or finds the state
\* Inactive, returns no position.
C13_TimestampAccuracy ==
    [][ /\ (SubrReturns /\ tstream'.some /\ start_pos[FileSrc] # INACTIVE
                /\ tstream'.v >= start_pos[FileSrc])
            => tret' = [kind |-> "Playing", ts |-> tstream'.v - start_pos[FileSrc]]
        /\ (tret' # tret /\ start_pos[FileSrc] = INACTIVE)
            => tret'.kind \in {"none", "Inactive", "Unavail", "Done"}
      ]_vars

\* the source started at counter 1 and a call at stream time 2 returned 1
C13_Witness ==
    /\ tpc = "idle"
    /\ start_pos[FileSrc] = 1
    /\ tstream = [some |-> TRUE, v |-> 2]
    /\ tret = [kind |-> "Playing", ts |-> 1]

\* ------------------------------------------------------- worker properties

\* the source is under construction: its factory has been taken from the
\* queue and the source is not yet pushed
Building == wsrc = FileSrc

C15_MediaFailureContained ==
    /\ dpc = "panic" => ~send_alive
    /\ crash # "caller"

\* ---------------------------------------------------- start of playback

\* C16: when the file source is pushed onto the list its channel is full or
\* its Sender is gone; until the first Playing pull nothing is taken from
\* the channel; and the recv of that first pull never parks.
C16_NoStartUnderrun ==
    [][ /\ (FileSrc \notin Range(source_infos) /\ FileSrc \in Range(source_infos'))
            => (filled' = cap \/ ~send_alive')
        /\ (start_pos[FileSrc] = INACTIVE /\ mpc # "recv") => UNCHANGED <<recv_i, rcvd>>
        /\ rpc' = "recvwait" => start_pos'[FileSrc] # INACTIVE
      ]_vars

\* the first Playing pull is copying from the channel of a live decode thread
C16_Witness ==
    /\ FileSrc \in Range(source_infos)
    /\ start_pos[FileSrc] = INACTIVE
    /\ mpc = "recv" /\ rpc = "recv"
    /\ rout # <<>>
    /\ send_alive

\* -------------------------------------------------------- end of stream

\* a get_samples result: Playing after a short read
ShortRead(e) == e.res = "Playing" /\ 0 < e.len /\ e.len < e.blen

\* C17: a Playing get_samples whose recv returned 0 < len < buf.len() adds
\* the len samples and zeros behind them to the mix and returns Playing; the
\* get_samples call after it returns Done; once Done was returned the state
\* stays Done, no call returns anything else, and the channel is not read.
C17_ShortReadThenDone ==
    [][ /\ (mpc = "recv" /\ mpc' # "recv" /\ 0 < rret /\ rret < mlen)
            => /\ tick' = Append(tick, [id |-> FileSrc, res |-> "Playing"])
               /\ \A k \in 1..mlen :
                      out'[k] = out[k] + (IF k <= rret THEN rout[k] ELSE 0)
        /\ (Len(glast') = 2 /\ ShortRead(glast'[1])) => glast'[2].res = "Done"
        /\ (glast # <<>> /\ glast[Len(glast)].res = "Done")
            => /\ state'[FileSrc] = "Done"
               /\ glast' = glast
               /\ UNCHANGED <<recv_i, rcvd>>
      ]_vars

\* a short read, padded, was followed by Done
C17_Witness ==
    /\ Len(glast) = 2
    /\ ShortRead(glast[1])
    /\ glast[2].res = "Done"
    /\ handle = "held"

\* ------------------------------------------------------ play, then ask

\* C18: once play has returned, no get_timestamp call on the handle returns
\* Inactive, whatever the mixer and the worker do in between.
C18_NoInactiveAfterPlay ==
    [][ (played /\ tret' # tret) => tret'.kind # "Inactive" ]_vars

\* play has returned, the worker has not pushed the source yet, and
\* get_timestamp has answered Unavail
C18_Witness ==
    /\ played
    /\ tpc = "idle"
    /\ tret.kind = "Unavail"
    /\ FileSrc \notin Range(source_infos)
    /\ state[FileSrc] = "Playing"

\* the frames 1..n in decode order
DecodeOrder(n) == [k \in 1..n |-> k]

\* n frames of silence
Silence(n) == [k \in 1..n |-> 0]

\* what the resampling loop holds and has not yet handed over: the filled
\* part of in_buf, then the unread part of the decoded buffer
Pending == SubSeq(in_buf, 1, in_i) \o SubSeq(dbuf, dbi + 1, Len(dbuf))

\* C19: within one source every decoded frame reaches the resampler input
\* (or, on the direct path, the channel) exactly once and in decode order,
\* across packet and input-block boundaries: what was handed over followed
\* by what the loop still holds is always exactly the frames decoded so far,
\* in order (after the end of the stream: all its frames, then only
\* silence), and in_i == in_next at every conversion.
C19_OrderPreserved ==
    /\ qpc # "panic"
    /\ qpc = "convert" => in_i = blk
    /\ qpc \in {"collect", "convert", "stopped", "done"} =>
          IF end
          THEN /\ nfr = flen
               /\ rin \o Pending = DecodeOrder(flen) \o Silence(Len(rin) + Len(Pending) - flen)
          ELSE rin \o Pending = DecodeOrder(nfr)
    /\ qpc \in {"direct", "ddone"} => rin = DecodeOrder(nfr)
    /\ qpc = "dstopped" => \E n \in 1..MaxPkt : rin = DecodeOrder(nfr - n)

\* a packet was split by an input-block boundary: its first part is
\* converted, the rest is still in the decoded buffer
C19_Witness ==
    /\ qpc = "collect" /\ in_i = 0
    /\ rin # <<>>
    /\ dbuf # <<>> /\ dbi > 0

\* C20 as stated: a resampled stream of F frames pushes exactly 2 * F frames.
C20_Original == qpc = "done" => nout = RATIO * flen

\* C20, amended: the stream is converted in whole input blocks of B frames,
\* the last one padded with silence (a whole block of silence when B divides
\* F), so the decode thread pushes 2 * B * (F div B + 1) frames, which is
\* more than 2 * F.
C20_WholeBlocks ==
    qpc = "done" =>
        /\ nout = RATIO * blk * (flen \div blk + 1)
        /\ nout > RATIO * flen

\* a stream that ends on a block boundary is followed by a whole block of
\* silence
C20_Witness == qpc = "done" /\ blk = MaxBlock /\ flen = MaxBlock /\ nout = RATIO * 2 * MaxBlock

\* ------------------------------------------------------- engine properties

\* the step is a call of start or pause
CallMade == calls' # calls

\* the call made in the step
LastCall == calls'[Len(calls')]

\* C21: a start or pause call made in the target state performs no stream
\* operation and leaves the flag alone; any other call performs the one
\* operation it asks for; the operations on the stream alternate play,
\* pause, play, ... (those of odd number are plays, the others pauses); the
\* flag equals the state the last call asked for.
C21_StartPause ==
    /\ [][ CallMade =>
             /\ playing' = (LastCall = "start")
             /\ playing = (LastCall = "start") => UNCHANGED <<playing, stream, sop, spar>>
             /\ playing # (LastCall = "start") =>
                    /\ spar' # spar
                    /\ sop' = IF LastCall = "start" THEN "play" ELSE "pause"
                    /\ stream' = IF LastCall = "start" THEN "run" ELSE "paused"
          ]_vars
    /\ [](spar = IF sop = "play" THEN 1 ELSE 0)
    /\ [](calls # <<>> => playing = (calls[Len(calls)] = "start"))

\* start, start again, pause, pause again, start: three operations have
\* reached the stream, the last one a play
C21_Witness ==
    /\ calls = <<"start", "start", "pause", "pause", "start">>
    /\ sop = "play" /\ spar = 1 /\ playing /\ stream = "run"

\* the entries of the tick whose source returned Playing
TickPlaying == SelectSeq(tick, LAMBDA e : e.res = "Playing")

\* C22: after a callback in which at least one source returned Playing,
\* every output sample out[k] / odiv equals the sum of the Playing sources'
\* samples divided by the number of sources that returned Playing; sources
\* that returned Inactive or Done do not count.
C22_DivisorCountsPlaying ==
    (mpc = "idle" /\ TickPlaying # <<>>) =>
        \A k \in 1..mlen : out[k] * Len(TickPlaying) = TickSum(TickPlaying) * odiv

\* the step is a return of get_samples to the mixer, and what it returned
Polled == tick' # tick /\ tick' # <<>>

LastPolled == tick'[Len(tick')]

\* C23: a start offset changes only in a step in which the mixer gets
\* Playing from that source, only from the sentinel, and to the value of the
\* sample counter; the first Playing return of a source leaves its offset
\* set; so it is written once, never again, never back to the sentinel, and
\* never for a source that has not returned Playing.
C23_StartOffsetOnce ==
    [][ /\ \A id \in Srcs :
              start_pos'[id] # start_pos[id] =>
                  /\ start_pos[id] = INACTIVE
                  /\ start_pos'[id] = sample_count
                  /\ mpc # "idle" /\ lock = "mixer"
                  /\ Polled /\ LastPolled = [id |-> id, res |-> "Playing"]
        /\ (Polled /\ LastPolled.res = "Playing") =>
              start_pos'[LastPolled.id] # INACTIVE
      ]_vars

\* source 1 started at counter 0; in a later callback it returned Playing
\* again and source 2 started, at counter 1
C23_Witness ==
    /\ mpc = "idle"
    /\ tick = <<[id |-> 1, res |-> "Playing"], [id |-> 2, res |-> "Playing"]>>
    /\ start_pos[1] = 0 /\ start_pos[2] = 1

\* C24: the assertion of the Inactive arm never fails: the mixer never
\* gets Inactive from a source whose start offset is recorded, and a source
\* whose start offset is recorded is never Inactive again.
C24_InactiveAssertHolds ==
    /\ mpc # "panic"
    /\ start_pos[FileSrc] # INACTIVE => state[FileSrc] # "Inactive"
    /\ \A j \in DOMAIN tick :
           tick[j].res = "Inactive" => start_pos[tick[j].id] = INACTIVE

\* the source was polled while Inactive in one callback, and has started in
\* a later one
C24_Witness ==
    /\ Len(glast) = 2
    /\ glast[1].res = "Inactive" /\ glast[2].res = "Playing"
    /\ start_pos[FileSrc] # INACTIVE

\* the mixer is parked in recv, inside get_samples, holding the list lock
MixerWaits == mpc = "recv" /\ rpc = "recvwait"

\* the decode thread is parked in send
DecodeWaits == dpc = "run" /\ spc = "wait"

\* the worker is parked in wait_full, building the source
WorkerWaits == wsrc = FileSrc /\ rpc = "wfwait"

\* C25: every mixer callback completes. The mixer parks only in recv, and
\* only while the channel is empty and the decode thread alive: an enqueue
\* or the end of the decode thread makes it runnable in the same step. The
\* decode thread is never parked in send while the mixer is parked in recv
\* or the worker in wait_full, so no cycle of waiting threads exists.
C25_MixerCallbackCompletes ==
    /\ [](MixerWaits => (send_alive /\ filled = 0 /\ lock = "mixer"))
    /\ [](~(DecodeWaits /\ (MixerWaits \/ WorkerWaits)))
    /\ [](mpc # "panic")
    /\ (mpc # "idle") ~> (mpc = "idle")

\* the mixer is parked in recv on the empty channel and the decode thread
\* is about to enqueue
C25_Witness ==
    /\ MixerWaits
    /\ dpc = "run" /\ spc = "run" /\ si < Len(sdata)

\* the sources of a tick, and those of them that returned Done
TickIds(t) == {t[j].id : j \in DOMAIN t}

TickDone(t) == {t[j].id : j \in {k \in DOMAIN t : t[k].res = "Done"}}

\* C26: when a callback ends, every source that was in the list at its
\* start has been polled exactly once, the sources that returned Done are
\* out of the list, all the others are still in it, once each, and the
\* output is the sum of the Playing sources only.
C26_PolledOnce ==
    [][ (mpc = "loop" /\ mpc' = "idle") =>
          /\ Len(tick) = Len(mstart)
          /\ TickIds(tick) = Range(mstart)
          /\ Range(source_infos') = Range(mstart) \ TickDone(tick)
          /\ Len(source_infos') = Cardinality(Range(source_infos'))
          /\ \A k \in 1..mlen : out'[k] = TickSum(TickPlaying)
      ]_vars

\* the list was <<1, 2, 3>>; source 1 returned Done, source 3 was swapped
\* into its slot, polled next and returned Done too, then source 2 played
C26_Witness ==
    /\ mpc = "idle"
    /\ mstart = <<1, 2, 3>>
    /\ tick = <<[id |-> 1, res |-> "Done"], [id |-> 3, res |-> "Done"],
                [id |-> 2, res |-> "Playing"]>>
    /\ source_infos = <<2>>

\* the resampling loop is collecting a block, holds no decoded frames, and
\* the stream has no packet left: do_decode returns None
AtEof == qpc = "collect" /\ in_i < blk /\ dbuf = <<>> /\ nfr = flen

\* C27: at the end of the stream the loop keeps the frames already in the
\* block, fills the rest of the block with silence and sets end; after that
\* it asks for no packet, converts exactly one block and leaves the loop;
\* the thread then only drops its Sender.
C27_EofOneMoreBlock ==
    [][ /\ AtEof =>
              /\ end' /\ qpc' = "convert" /\ in_i' = blk
              /\ \A k \in 1..blk : in_buf'[k] = IF k <= in_i THEN in_buf[k] ELSE 0
              /\ UNCHANGED <<nfr, rin, nout>>
        /\ end' => AtEof \/ end
        /\ end =>
              /\ nfr' = nfr /\ dbuf' = <<>> /\ end'
              /\ qpc \in {"convert", "done", "stopped"}
              /\ qpc = "convert" =>
                     /\ qpc' \in {"done", "stopped"}
                     /\ rin' = rin \o in_buf
              /\ qpc \in {"done", "stopped"} =>
                     /\ UNCHANGED resVars
                     /\ send_alive /\ ~send_alive'
      ]_vars

\* a stream of one frame and blocks of two: the block <<1, silence>> was
\* converted, the loop was left and the Sender is dropped
C27_Witness ==
    /\ qpc = "done" /\ end
    /\ blk = 2 /\ flen = 1
    /\ rin = <<1, 0>>
    /\ ~send_alive

\* C28: a call that returns Playing(ts) at a stream time not before the
\* stream time of the last call that returned a position returns a
\* position not before that one.
C28_Monotonic ==
    [][ (SubrReturns /\ tret'.kind = "Playing" /\ tlast.some /\ tlast.st <= tstream.v)
            => tret'.ts >= tlast.ts
      ]_vars

\* a second position has been returned, computed from the start offset 1
\* at stream time 2
C28_Witness ==
    /\ tpc = "idle"
    /\ tlast = [some |-> TRUE, st |-> 2, ts |-> 1, first |-> FALSE]
    /\ tret = [kind |-> "Playing", ts |-> 1]
    /\ start_pos[FileSrc] = 1

\* the producer is parked in send; the consumer is parked in recv or in
\* wait_full
SendParked == spc = "wait"

RecvParked == rpc \in {"recvwait", "wfwait"}

\* C29: while both ends are alive the producer and the consumer are never
\* parked at the same time; a parked producer means a full buffer and a
\* parked consumer one that is not full (recv: empty); every chunk written
\* leaves no consumer parked and every chunk read leaves no producer
\* parked.
C29_NoMutualWait ==
    /\ []((send_alive /\ recv_alive) => ~(SendParked /\ RecvParked))
    /\ []((SendParked /\ recv_alive) => filled = cap)
    /\ []((rpc = "recvwait" /\ send_alive) => filled = 0)
    /\ []((rpc = "wfwait" /\ send_alive) => filled < cap)
    /\ [][filled' > filled => ~RecvParked']_vars
    /\ [][filled' < filled => ~SendParked']_vars

\* the producer has filled the channel and is parked with data left to
\* send, while the consumer, in recv with nothing read yet, is runnable
C29_Witness ==
    /\ send_alive /\ recv_alive
    /\ SendParked /\ filled = cap
    /\ rpc = "recv" /\ rout = <<>> /\ rlen > 0

\* the file source has returned Done and is out of the list, its Receiver
\* dropped with it
Removed ==
    /\ state[FileSrc] = "Done"
    /\ ~recv_alive
    /\ FileSrc \notin Range(source_infos)

\* C30: if mixer callbacks keep coming, a source whose handle has called
\* play is eventually Done and removed from the list; it stays so; and a
\* get_timestamp call made once the state is Done returns Done.
C30_EventuallyDone ==
    /\ ([]<>(mpc = "loop")) => (played ~> Removed)
    /\ [][Removed => Removed']_vars
    /\ [][ (state[FileSrc] = "Done" /\ tpc = "idle" /\ tret' # tret)
              => (tret'.kind = "Done" /\ tpc' = "idle") ]_vars

\* the stream was played to its end, the source is removed, and the handle
\* has been told so
C30_Witness ==
    /\ Removed
    /\ played /\ handle = "held"
    /\ rcvd # <<>> /\ rcvd = sent
    /\ tret.kind = "Done"

====
